---- MODULE Spec2Model ----
(***************************************************************************)
(* A model of satpy's spectral blending compositors                        *)
(* (satpy/composites/spectral.py: SpectralBlender, HybridGreen,            *)
(* NDVIHybridGreen) and of the ATMS level-1b reader exercised by           *)
(* satpy/tests/reader_tests/test_atms_l1b_nc.py.                           *)
(*                                                                         *)
(* Numbers are IEEE-754 values with the rounding left out: a value is NaN, *)
(* +inf, -inf or an exact rational n/d in lowest terms.  Signed zeros are  *)
(* not distinguished: a zero divisor nir + vis is -0.0 only when nir and   *)
(* vis are both -0.0, and then the dividend is a zero too and the quotient *)
(* is NaN whatever the sign.                                               *)
(***************************************************************************)
EXTENDS Integers, Sequences, FiniteSets, TLC

(***************************************************************************)
(* Bounds of the model.                                                    *)
(***************************************************************************)
\* pixels of a channel array
NPix == 2
\* the longest list of projectables passed to a call
MaxProj == 4
\* calls made on one compositor instance
MaxCalls == 2

(***************************************************************************)
(* Float values.                                                           *)
(***************************************************************************)
Abs(x) == IF x < 0 THEN -x ELSE x

RECURSIVE GCD(_, _)
GCD(a, b) == IF b = 0 THEN a ELSE GCD(b, a % b)

NaN == [k |-> "nan", n |-> 0, d |-> 1]
PInf == [k |-> "inf", n |-> 1, d |-> 1]
NInf == [k |-> "inf", n |-> -1, d |-> 1]

\* the finite value n/d (d # 0), in lowest terms with a positive denominator
Q(n, d) ==
  LET s == IF d < 0 THEN -1 ELSE 1
      g == GCD(Abs(n), Abs(d))
  IN [k |-> "fin", n |-> (s * n) \div g, d |-> (s * d) \div g]

Num(n) == Q(n, 1)

IsNaN(a) == a.k = "nan"
IsInf(a) == a.k = "inf"
IsFin(a) == a.k = "fin"
Sign(a) == IF a.n > 0 THEN 1 ELSE IF a.n < 0 THEN -1 ELSE 0
Signed(s) == IF s > 0 THEN PInf ELSE NInf

FNeg(a) == IF IsNaN(a) THEN NaN ELSE [a EXCEPT !.n = -a.n]

FAdd(a, b) ==
  IF IsNaN(a) \/ IsNaN(b) THEN NaN
  ELSE IF IsInf(a) /\ IsInf(b) THEN (IF a = b THEN a ELSE NaN)
  ELSE IF IsInf(a) THEN a
  ELSE IF IsInf(b) THEN b
  ELSE Q(a.n * b.d + b.n * a.d, a.d * b.d)

FSub(a, b) == FAdd(a, FNeg(b))

FMul(a, b) ==
  IF IsNaN(a) \/ IsNaN(b) THEN NaN
  ELSE IF IsInf(a) \/ IsInf(b)
       THEN (IF Sign(a) * Sign(b) = 0 THEN NaN ELSE Signed(Sign(a) * Sign(b)))
  ELSE Q(a.n * b.n, a.d * b.d)

\* true division; a zero divisor gives NaN (0/0) or an infinity, not an error
FDiv(a, b) ==
  IF IsNaN(a) \/ IsNaN(b) THEN NaN
  ELSE IF IsInf(a) /\ IsInf(b) THEN NaN
  ELSE IF IsInf(a) THEN (IF Sign(b) < 0 THEN FNeg(a) ELSE a)
  ELSE IF IsInf(b) THEN Num(0)
  ELSE IF b.n = 0 THEN (IF a.n = 0 THEN NaN ELSE Signed(a.n))
  ELSE Q(a.n * b.d, a.d * b.n)

\* comparisons: every comparison with a NaN is false
FLt(a, b) ==
  IF IsNaN(a) \/ IsNaN(b) THEN FALSE
  ELSE IF IsInf(a) \/ IsInf(b)
       THEN (IF IsInf(a) /\ IsInf(b) THEN a.n < b.n
             ELSE IF IsInf(a) THEN a.n < 0 ELSE b.n > 0)
  ELSE a.n * b.d < b.n * a.d

FGt(a, b) == FLt(b, a)

(***************************************************************************)
(* Arrays.  An array-like is a scalar or an array of NPix pixels;          *)
(* arithmetic between the two broadcasts the scalar over the pixels.       *)
(***************************************************************************)
Scalar(v) == [shape |-> "scalar", data |-> <<v>>]
Array(vs) == [shape |-> "array", data |-> vs]

At(x, p) == IF x.shape = "scalar" THEN x.data[1] ELSE x.data[p]

Shape(x, y) == IF x.shape = "scalar" /\ y.shape = "scalar" THEN 1 ELSE NPix

Shaped(x, y, vs) ==
  IF x.shape = "scalar" /\ y.shape = "scalar" THEN Scalar(vs[1]) ELSE Array(vs)

AAdd(x, y) == Shaped(x, y, [p \in 1..Shape(x, y) |-> FAdd(At(x, p), At(y, p))])
ASub(x, y) == Shaped(x, y, [p \in 1..Shape(x, y) |-> FSub(At(x, p), At(y, p))])
AMul(x, y) == Shaped(x, y, [p \in 1..Shape(x, y) |-> FMul(At(x, p), At(y, p))])
ADiv(x, y) == Shaped(x, y, [p \in 1..Shape(x, y) |-> FDiv(At(x, p), At(y, p))])

\* a clamp that lets a NaN through, as clip(x, bound, None) does
WhereGt_keepnan(x, bound) ==
  Array([p \in 1..NPix |-> IF FLt(At(x, p), bound) THEN bound ELSE At(x, p)])

\* da.where(cond, x, y) with cond a comparison of x with the scalar bound
WhereGt(x, bound) ==
  Array([p \in 1..NPix |-> IF FGt(At(x, p), bound) THEN At(x, p) ELSE bound])

WhereLt(x, bound) ==
  Array([p \in 1..NPix |-> IF FLt(At(x, p), bound) THEN At(x, p) ELSE bound])

(***************************************************************************)
(* The compositors of satpy/composites/spectral.py.                        *)
(* An instance is a record of the fields the three classes set; ndvi_min,  *)
(* ndvi_max and limits are read by NDVIHybridGreen alone.                  *)
(***************************************************************************)
VARIABLES
  ctor,          \* the arguments the instance was constructed with
  self,          \* the compositor instance
  projectables,  \* the projectables of the last call
  outcome,       \* how the last call ended
  new_channel,   \* what the last call returned
  steps,         \* the collaborators and arithmetic the last call went through
  ncalls,        \* calls made so far
  overwrote      \* the last call left self.fractions other than it found it

compositorVars ==
  <<ctor, self, projectables, outcome, new_channel, steps, ncalls, overwrote>>

Min(a, b) == IF a < b THEN a ELSE b

\* SpectralBlender.__init__(fractions=())
SpectralBlender_init(cls, fractions, ndvi_min, ndvi_max, limits) ==
  [cls |-> cls, fractions |-> fractions,
   ndvi_min |-> ndvi_min, ndvi_max |-> ndvi_max, limits |-> limits]

\* a keyword argument the caller did not pass, and the value it then takes
Missing == [k |-> "missing", n |-> 0, d |-> 1]
Keyword(given, default) == IF given = Missing THEN default ELSE given

\* a slip in the order of the two weights
HybridFractions_swapped(fraction) == <<Scalar(fraction), Scalar(FSub(Num(1), fraction))>>

\* fractions = (1 - fraction, fraction)
HybridFractions(fraction) == <<Scalar(FSub(Num(1), fraction)), Scalar(fraction)>>

\* HybridGreen.__init__(fraction=0.07)
HybridGreen_init(fraction) ==
  SpectralBlender_init("HybridGreen",
                       HybridFractions(Keyword(fraction, Q(7, 100))),
                       Num(0), Num(0), <<>>)

\* NDVIHybridGreen.__init__(ndvi_min=0.0, ndvi_max=1.0, limits=(0.15, 0.05));
\* a fractions keyword goes through **kwargs to SpectralBlender.__init__
NDVIHybridGreen_init(ndvi_min, ndvi_max, limits, fractions) ==
  SpectralBlender_init("NDVIHybridGreen", fractions,
                       Keyword(ndvi_min, Num(0)), Keyword(ndvi_max, Num(1)),
                       IF limits = <<>> THEN <<Q(15, 100), Q(5, 100)>> ELSE limits)

\* the constructor call a set of arguments stands for
Construct(c) ==
  CASE c.cls = "SpectralBlender" ->
         SpectralBlender_init("SpectralBlender", c.fractions, Num(0), Num(0), <<>>)
    [] c.cls = "HybridGreen" -> HybridGreen_init(c.fraction)
    [] c.cls = "NDVIHybridGreen" ->
         NDVIHybridGreen_init(c.ndvi_min, c.ndvi_max, c.limits, c.fractions)

\* GenericCompositor.match_data_arrays on arrays of one shape: the same arrays
match_data_arrays(arrays) == arrays

\* a slip in the pairing: the weights taken from the far end
Zip_reversed(a, b) ==
  [i \in 1..Min(Len(a), Len(b)) |-> <<a[Len(a) + 1 - i], b[i]>>]

\* zip(a, b): the pairs up to the shorter of the two
Zip(a, b) == [i \in 1..Min(Len(a), Len(b)) |-> <<a[i], b[i]>>]

\* sum(iterable): the fold from the int 0, left to right
RECURSIVE PySum(_, _)
PySum(terms, acc) ==
  IF terms = <<>> THEN acc ELSE PySum(Tail(terms), AAdd(acc, Head(terms)))

\* sum(fraction * value for fraction, value in zip(self.fractions, projectables))
WeightedSum(fractions, values) ==
  LET z == Zip(fractions, values)
  IN PySum([i \in DOMAIN z |-> AMul(z[i][1], z[i][2])], Scalar(Num(0)))

\* GenericCompositor.__call__((new_channel,)): the single channel, its values kept
GenericCompositor_call(channels) == channels[1]

Raised(inst, exc, done) ==
  [self |-> inst, outcome |-> exc, value |-> <<>>, steps |-> done]

\* a slip in the opening check: only a surplus of projectables is refused
LengthMismatch_surplus(inst, projs) == Len(inst.fractions) < Len(projs)

\* the check that opens SpectralBlender.__call__
LengthMismatch(inst, projs) == Len(inst.fractions) # Len(projs)

\* SpectralBlender.__call__(projectables).  With no fractions and no
\* projectables the sum is the int 0, which has no attrs to set: the call
\* raises after the sum.
SpectralBlender_call(inst, projs) ==
  IF LengthMismatch(inst, projs)
  THEN Raised(inst, "ValueError", <<>>)
  ELSE LET matched == match_data_arrays(projs)
           channel == WeightedSum(inst.fractions, matched)
       IN IF channel.shape = "scalar"
          THEN Raised(inst, "Error", <<"match_data_arrays", "sum", "combine_metadata">>)
          ELSE [self |-> inst, outcome |-> "returned",
                value |-> GenericCompositor_call(<<channel>>).data,
                steps |-> <<"match_data_arrays", "sum", "combine_metadata",
                            "GenericCompositor.__call__">>]

\* ndvi = (ndvi_input[1] - ndvi_input[0]) / (ndvi_input[1] + ndvi_input[0])
Ndvi(ndvi_input) ==
  ADiv(ASub(ndvi_input[2], ndvi_input[1]), AAdd(ndvi_input[2], ndvi_input[1]))

\* a clamp that forgets the upper bound
Clamp_lower(inst, ndvi) == WhereGt(ndvi, inst.ndvi_min)

\* the two da.where replacements, the second reading the result of the first
Clamp(inst, ndvi) == WhereLt(WhereGt(ndvi, inst.ndvi_min), inst.ndvi_max)

\* fraction = (ndvi - ndvi_min) / (ndvi_max - ndvi_min) * (limits[1] - limits[0]) + limits[0]
Fraction(inst, ndvi) ==
  AAdd(AMul(ADiv(ASub(ndvi, Scalar(inst.ndvi_min)),
                 Scalar(FSub(inst.ndvi_max, inst.ndvi_min))),
            Scalar(FSub(inst.limits[2], inst.limits[1]))),
       Scalar(inst.limits[1]))

\* a slip that keeps fractions already set and fills in only missing ones
NewFractions_keep(inst, fraction) ==
  IF inst.fractions # <<>> THEN inst.fractions
  ELSE <<ASub(Scalar(Num(1)), fraction), fraction>>

\* self.fractions = (1 - fraction, fraction)
NewFractions(inst, fraction) == <<ASub(Scalar(Num(1)), fraction), fraction>>

\* a slip in the inputs handed on: the vis channel blended in place of the nir
BlendInputs_vis(projs) == <<projs[1], projs[2]>>

\* the projectables NDVIHybridGreen hands on to SpectralBlender.__call__
BlendInputs(projs) == <<projs[1], projs[3]>>

\* NDVIHybridGreen.__call__(projectables); projectables[1] and [2] of a list
\* shorter than three raise IndexError before anything is done
NDVIHybridGreen_call(inst, projs) ==
  IF Len(projs) < 3
  THEN Raised(inst, "IndexError", <<>>)
  ELSE LET ndvi_input == match_data_arrays(<<projs[2], projs[3]>>)
           ndvi == Clamp(inst, Ndvi(ndvi_input))
           fraction == Fraction(inst, ndvi)
           inst2 == [inst EXCEPT !.fractions = NewFractions(inst, fraction)]
           r == SpectralBlender_call(inst2, BlendInputs(projs))
       IN [r EXCEPT !.steps = <<"match_data_arrays", "ndvi">> \o r.steps]

\* instance(projectables): the __call__ of the instance's class
Call(inst, projs) ==
  IF inst.cls = "NDVIHybridGreen"
  THEN NDVIHybridGreen_call(inst, projs)
  ELSE SpectralBlender_call(inst, projs)

(***************************************************************************)
(* The inputs.  A scene gives every channel an array of NPix pixels; its   *)
(* first pixel is one sample and the pixels after it are another.  A       *)
(* sample gives the values of the first three channels (green, vis, nir    *)
(* for NDVIHybridGreen), and the channels after them repeat these.         *)
(***************************************************************************)
Samples ==
  { <<10, 20, 30>>,     \* NDVI 1/5
    <<100, 200, 50>>,   \* NDVI -3/5
    <<1, 0, 1>>,        \* NDVI 1
    <<2, 0, 0>>,        \* vis + nir = 0, NDVI 0/0
    <<2, -1, 1>>,       \* vis + nir = 0, NDVI +inf
    <<2, 1, -1>> }      \* vis + nir = 0, NDVI -inf

SampleValue(s, i) == Num(s[((i - 1) % 3) + 1])

Channel(first, rest, i) ==
  Array([p \in 1..NPix |-> IF p = 1 THEN SampleValue(first, i) ELSE SampleValue(rest, i)])

Scene(first, rest, n) == [i \in 1..n |-> Channel(first, rest, i)]

Inputs ==
  {<<>>} \cup { Scene(a, b, n) : a \in Samples, b \in Samples, n \in 1..MaxProj }

ScalarFractions(vs) == [i \in DOMAIN vs |-> Scalar(vs[i])]

BlenderArgs(fractions) ==
  [cls |-> "SpectralBlender", fractions |-> ScalarFractions(fractions),
   fraction |-> Num(0), ndvi_min |-> Num(0), ndvi_max |-> Num(0), limits |-> <<>>]

HybridArgs(fraction) ==
  [cls |-> "HybridGreen", fractions |-> <<>>,
   fraction |-> fraction, ndvi_min |-> Num(0), ndvi_max |-> Num(0), limits |-> <<>>]

NdviArgs(ndvi_min, ndvi_max, limits, fractions) ==
  [cls |-> "NDVIHybridGreen", fractions |-> ScalarFractions(fractions),
   fraction |-> Num(0), ndvi_min |-> ndvi_min, ndvi_max |-> ndvi_max, limits |-> limits]

Configurations ==
  { BlenderArgs(<<>>),
    BlenderArgs(<<Q(1, 2)>>),
    BlenderArgs(<<Q(3, 4), Q(1, 4)>>),
    BlenderArgs(<<Q(63, 100), Q(29, 100), Q(8, 100)>>),
    HybridArgs(Missing),
    HybridArgs(Q(1, 4)),
    NdviArgs(Missing, Missing, <<>>, <<>>),
    NdviArgs(Missing, Missing, <<>>, <<Q(1, 2), Q(1, 2), Q(1, 2)>>),
    NdviArgs(Num(-1), Q(1, 2), <<Q(1, 4), Q(3, 4)>>, <<>>),
    NdviArgs(Q(1, 2), Q(1, 2), <<>>, <<>>),
    NdviArgs(Num(1), Num(0), <<>>, <<>>) }

CompositorInit ==
  /\ ctor \in Configurations
  /\ self = Construct(ctor)
  /\ projectables = <<>>
  /\ outcome = "none"
  /\ new_channel = <<>>
  /\ steps = <<>>
  /\ ncalls = 0
  /\ overwrote = FALSE

Returns(r) ==
  /\ self' = r.self
  /\ outcome' = r.outcome
  /\ new_channel' = r.value
  /\ steps' = r.steps
  /\ overwrote' = (r.self.fractions # self.fractions)
  /\ ncalls' = ncalls + 1
  /\ UNCHANGED ctor

\* a call of a SpectralBlender or a HybridGreen instance
SpectralBlenderCall ==
  /\ self.cls \in {"SpectralBlender", "HybridGreen"}
  /\ ncalls < MaxCalls
  /\ \E projs \in Inputs :
       /\ projectables' = projs
       /\ \E r \in {SpectralBlender_call(self, projs)} : Returns(r)

\* a call of an NDVIHybridGreen instance
NDVIHybridGreenCall ==
  /\ self.cls = "NDVIHybridGreen"
  /\ ncalls < MaxCalls
  /\ \E projs \in Inputs :
       /\ projectables' = projs
       /\ \E r \in {NDVIHybridGreen_call(self, projs)} : Returns(r)

(***************************************************************************)
(* The ATMS level-1b reader, AtmsL1bNCFileHandler, as the tests of         *)
(* test_atms_l1b_nc.py construct and use it.  A string is the sequence of  *)
(* its characters.                                                         *)
(***************************************************************************)
VARIABLES
  nc,        \* the reader's backing dataset
  request,   \* the last request made of the reader
  reply,     \* what the reader returned for it
  nreads     \* requests made so far

readerVars == <<nc, request, reply, nreads>>

\* requests made of one reader
MaxReads == 2

\* atms_fake_dataset: the sizes of its dimensions
atrack == 2
xtrack == 3
channel == 22

Digits == <<"0", "1", "2", "3", "4", "5", "6", "7", "8", "9">>

\* str(k) of an integer k >= 0
RECURSIVE str(_)
str(k) == IF k < 10 THEN <<Digits[k + 1]>> ELSE str(k \div 10) \o <<Digits[(k % 10) + 1]>>

IsDigit(c) == \E i \in DOMAIN Digits : Digits[i] = c
DigitValue(c) == (CHOOSE i \in DOMAIN Digits : Digits[i] = c) - 1

\* whether int(name) is defined for a string of this model: decimal digits only
IsDecimal(name) == name # <<>> /\ \A i \in DOMAIN name : IsDigit(name[i])

\* int(name) of a string of decimal digits
RECURSIVE int(_)
int(name) ==
  IF name = <<>> THEN 0
  ELSE 10 * int(SubSeq(name, 1, Len(name) - 1)) + DigitValue(name[Len(name)])

Full(value) == [a \in 1..atrack |-> [x \in 1..xtrack |-> value]]

\* atms_fake_dataset(): channel idx (from 0) of the cube holds 100 + idx
atms_fake_dataset ==
  [data_vars |->
     [antenna_temp |->
        [dims |-> <<"atrack", "xtrack", "channel">>,
         values |-> [a \in 1..atrack |-> [x \in 1..xtrack |->
                       [c \in 1..channel |-> 100 + (c - 1)]]],
         attrs |-> <<>>, coords |-> {}],
      lon |-> [dims |-> <<"atrack", "xtrack">>, values |-> Full(1),
               attrs |-> <<>>, coords |-> {}],
      lat |-> [dims |-> <<"atrack", "xtrack">>, values |-> Full(2),
               attrs |-> <<>>, coords |-> {}],
      sat_azi |-> [dims |-> <<"atrack", "xtrack">>, values |-> Full(3),
                   attrs |-> <<>>, coords |-> {}]],
   attrs |->
     [time_coverage_start |-> <<2000, 1, 2, 3, 4, 5, "Z">>,
      time_coverage_end |-> <<2000, 1, 2, 4, 5, 6, "Z">>,
      platform |-> "JPSS-1",
      instrument |-> "ATMS"]]

\* the reader fixture's filename_info and filetype_info
filename_info == [creation_time |-> <<2020, 1, 2, 3, 4, 5>>]
filetype_info == [antenna_temperature |-> "antenna_temp"]

\* the names of the 2-D variables of the dataset, as strings
VariableNames ==
  [lon |-> <<"l", "o", "n">>,
   lat |-> <<"l", "a", "t">>,
   sat_azi |-> <<"s", "a", "t", "_", "a", "z", "i">>]

\* a timestamp of the file's attributes, its trailing designator stripped
ParseTime(t) == SubSeq(t, 1, Len(t) - 1)

start_time(ds) == ParseTime(ds.attrs.time_coverage_start)
end_time(ds) == ParseTime(ds.attrs.time_coverage_end)
platform_name(ds) == ds.attrs.platform
sensor(ds) == ds.attrs.instrument

\* reader.attrs
attrs(ds) ==
  [start_time |-> start_time(ds), end_time |-> end_time(ds),
   platform_name |-> platform_name(ds), sensor |-> sensor(ds)]

\* reader.antenna_temperature: the cube, as stored
antenna_temperature(ds) == ds.data_vars[filetype_info.antenna_temperature]

\* a slip in the index: the channel number taken as the index
ChannelIndex_nooffset(name) == int(name)

\* the cube index of a channel name: 1-based names, 0-based indices
ChannelIndex(name) == int(name) - 1

\* whether a name is the name of a channel of the cube
IsChannelName(name) ==
  IsDecimal(name) /\ ChannelIndex(name) \in 0..(channel - 1)

IndexError == [dims |-> <<>>, values |-> <<>>, attrs |-> <<>>, coords |-> {"IndexError"}]

\* cube[:, :, idx]: an index from 0, a negative one counting from the end,
\* one outside the cube an IndexError
Slice(cube, idx) ==
  LET c == IF idx < 0 THEN idx + channel ELSE idx
  IN IF c \notin 0..(channel - 1) THEN IndexError
     ELSE [dims |-> SubSeq(cube.dims, 1, 2),
           values |-> [a \in 1..atrack |-> [x \in 1..xtrack |-> cube.values[a][x][c + 1]]],
           attrs |-> cube.attrs, coords |-> cube.coords]

\* reader._get_channel_data(name): the slice cube[:, :, int(name) - 1]
get_channel_data(ds, name) == Slice(antenna_temperature(ds), ChannelIndex(name))

\* reader._standardize_dims: along-track is y, cross-track is x
StandardDim(d) ==
  IF d \in {"atrack", "y"} THEN "y" ELSE IF d \in {"xtrack", "x"} THEN "x" ELSE d

\* a reader that returns the dimensions as the file names them
standardize_dims_asis(variable) == variable

standardize_dims(variable) ==
  LET renamed == [i \in DOMAIN variable.dims |-> StandardDim(variable.dims[i])]
  IN IF renamed = <<"x", "y">>
     THEN [variable EXCEPT
             !.dims = <<"y", "x">>,
             !.values = [a \in 1..Len(variable.values[1]) |->
                          [x \in 1..Len(variable.values) |-> variable.values[x][a]]]]
     ELSE [variable EXCEPT !.dims = renamed]

\* reader._drop_coords
drop_coords(variable) == [variable EXCEPT !.coords = {}]

\* reader._merge_attributes: the array's own attributes, then the file name's,
\* the dataset_info's and the reader's, a later one replacing an earlier one
merge_attributes(ds, variable, dataset_info) ==
  [variable EXCEPT !.attrs = attrs(ds) @@ dataset_info @@ filename_info @@ variable.attrs]

None == [dims |-> <<>>, values |-> <<>>, attrs |-> <<>>, coords |-> {"None"}]

\* the variable a name selects, or None
Select(ds, name) ==
  IF IsChannelName(name) THEN get_channel_data(ds, name)
  ELSE IF \E v \in DOMAIN VariableNames : VariableNames[v] = name
       THEN ds.data_vars[CHOOSE v \in DOMAIN VariableNames : VariableNames[v] = name]
       ELSE None

\* reader.get_dataset(dataset_id, dataset_info)
get_dataset(ds, name, dataset_info) ==
  LET variable == Select(ds, name)
  IN IF variable = None THEN None
     ELSE standardize_dims(drop_coords(merge_attributes(ds, variable, dataset_info)))

\* the names asked for: the channels, the variables, and names of neither
ChannelNames == { str(k) : k \in 1..channel }

UnknownNames ==
  { str(0), str(channel + 1),
    <<"n", "o", "n", "_", "e", "x", "i", "s", "t", "i", "n", "g", "_", "d", "a", "t", "a">> }

DatasetNames ==
  ChannelNames \cup { VariableNames[v] : v \in DOMAIN VariableNames } \cup UnknownNames

DatasetInfos == { <<>>, [name |-> "test"] }

ReaderInit ==
  /\ nc = atms_fake_dataset
  /\ request = [op |-> "none", name |-> <<>>, info |-> <<>>]
  /\ reply = None
  /\ nreads = 0

\* a call of reader._get_channel_data with the name of a channel
GetChannelData ==
  /\ nreads < MaxReads
  /\ \E name \in ChannelNames :
       /\ request' = [op |-> "_get_channel_data", name |-> name, info |-> <<>>]
       /\ reply' = get_channel_data(nc, name)
  /\ nreads' = nreads + 1
  /\ UNCHANGED nc

\* a call of reader.get_dataset
GetDataset ==
  /\ nreads < MaxReads
  /\ \E name \in DatasetNames, info \in DatasetInfos :
       /\ request' = [op |-> "get_dataset", name |-> name, info |-> info]
       /\ reply' = get_dataset(nc, name, info)
  /\ nreads' = nreads + 1
  /\ UNCHANGED nc

vars == <<compositorVars, readerVars>>

\* the compositors are used with no reader constructed
NoReader ==
  /\ nc = [data_vars |-> <<>>, attrs |-> <<>>]
  /\ request = [op |-> "none", name |-> <<>>, info |-> <<>>]
  /\ reply = None
  /\ nreads = 0

Init == CompositorInit /\ NoReader

Next ==
  \/ SpectralBlenderCall /\ UNCHANGED readerVars
  \/ NDVIHybridGreenCall /\ UNCHANGED readerVars

Spec == Init /\ [][Next]_vars

ReaderSpecInit ==
  /\ ctor = BlenderArgs(<<>>)
  /\ CompositorInit
  /\ ReaderInit

ReaderNext ==
  \/ GetChannelData /\ UNCHANGED compositorVars
  \/ GetDataset /\ UNCHANGED compositorVars

ReaderSpec == ReaderSpecInit /\ [][ReaderNext]_vars

(***************************************************************************)
(* The properties of the compositors, checked under Spec.                  *)
(***************************************************************************)
Called == ncalls > 0
Blender == self.cls \in {"SpectralBlender", "HybridGreen"}
Ndvi3 == self.cls = "NDVIHybridGreen"
Returned == outcome = "returned"
Pixels == 1..NPix

\* the value of input i (from 1) of the last call at pixel p
In(i, p) == projectables[i].data[p]

\* (1 - w) * a + w * b
Mix(w, a, b) == FAdd(FMul(FSub(Num(1), w), a), FMul(w, b))

\* the sum of fr[j] * input j at pixel p over j = 1..i
RECURSIVE SigmaTo(_, _, _)
SigmaTo(fr, p, i) ==
  IF i = 0 THEN Num(0)
  ELSE FAdd(SigmaTo(fr, p, i - 1), FMul(At(fr[i], p), In(i, p)))

\* C1: a call of a SpectralBlender or a HybridGreen whose fractions and
\* projectables differ in number raises ValueError, and it does so before any
\* alignment, multiplication or summation and without an output channel.
C1_MismatchRaisesFirst ==
  (Called /\ Blender /\ Len(self.fractions) # Len(projectables))
    => (outcome = "ValueError" /\ steps = <<>> /\ new_channel = <<>>)

C1_Witness ==
  /\ Called /\ Blender /\ outcome = "ValueError"
  /\ Len(self.fractions) > Len(projectables)
  /\ Len(projectables) > 0

\* C2: with N >= 1 fractions and N projectables the call returns one channel
\* whose value at every pixel is the sum over i of fractions[i] *
\* projectables[i], the i-th weight with the i-th input, each input once.
C2_WeightedSum ==
  (Called /\ Blender /\ Len(self.fractions) >= 1
     /\ Len(projectables) = Len(self.fractions))
    => /\ Returned
       /\ DOMAIN new_channel = Pixels
       /\ \A p \in Pixels :
            new_channel[p] = SigmaTo(self.fractions, p, Len(projectables))

\* fractions [0.63, 0.29, 0.08] on 10, 20, 30 give 14.5
C2_Witness ==
  /\ Called /\ Returned /\ self.cls = "SpectralBlender"
  /\ Len(projectables) = 3
  /\ <<In(1, 1), In(2, 1), In(3, 1)>> = <<Num(10), Num(20), Num(30)>>
  /\ self.fractions = <<Scalar(Q(63, 100)), Scalar(Q(29, 100)), Scalar(Q(8, 100))>>
  /\ new_channel[1] = Q(29, 2)

\* the raw NDVI of pixel p of the last call, inputs [green, vis, nir]
RawNdvi(p) == FDiv(FSub(In(3, p), In(2, p)), FAdd(In(3, p), In(2, p)))
NdviDefined(p) == FAdd(In(3, p), In(2, p)) # Num(0)

Leq(a, b) == a = b \/ FLt(a, b)

\* the NDVI brought into [ndvi_min, ndvi_max]
Clamped(v) ==
  IF FLt(v, self.ndvi_min) THEN self.ndvi_min
  ELSE IF FGt(v, self.ndvi_max) THEN self.ndvi_max
  ELSE v

\* the nir weight the documentation gives for a clamped NDVI v
LinearFraction(v) ==
  FAdd(FMul(FDiv(FSub(v, self.ndvi_min), FSub(self.ndvi_max, self.ndvi_min)),
            FSub(self.limits[2], self.limits[1])),
       self.limits[1])

NdviCall == Called /\ Ndvi3 /\ Len(projectables) >= 3
Ordered == FLt(self.ndvi_min, self.ndvi_max)

Expected ==
  CASE self.cls = "SpectralBlender" -> Len(ctor.fractions)
    [] self.cls = "HybridGreen" -> 2
    [] self.cls = "NDVIHybridGreen" -> 3

\* C4 as stated: a call of any of the three compositors with the wrong number
\* of inputs ends in an error, never in an output channel.
C4_WrongCountRaises ==
  (Called /\ Len(projectables) # Expected) => ~Returned

\* C5: for inputs [green, vis, nir] with vis + nir # 0 at a pixel and
\* ndvi_min < ndvi_max the output there is (1 - f) * green + f * nir, with f
\* the linear map of the clamped NDVI (nir - vis) / (nir + vis); vis enters
\* through the NDVI alone.
C5_NdviBlend ==
  (NdviCall /\ Ordered)
    => /\ Returned
       /\ \A p \in Pixels :
            NdviDefined(p)
              => new_channel[p] =
                   Mix(LinearFraction(Clamped(RawNdvi(p))), In(1, p), In(3, p))

\* an NDVI strictly inside the range, and green, vis and nir all different
C5_Witness ==
  /\ NdviCall /\ Ordered /\ Returned
  /\ NdviDefined(1)
  /\ FLt(self.ndvi_min, RawNdvi(1)) /\ FLt(RawNdvi(1), self.ndvi_max)
  /\ In(1, 1) # In(2, 1) /\ In(2, 1) # In(3, 1)
  /\ new_channel[1] = Q(63, 5)

\* C6: HybridGreen built with fraction F holds the weights (1 - F, F), takes
\* exactly two inputs [green, nir] and returns (1 - F) * green + F * nir at
\* every pixel; with no fraction given F is 0.07, and 100 and 200 give 107.
C6_HybridGreen ==
  self.cls = "HybridGreen"
    => LET F == IF ctor.fraction = Missing THEN Q(7, 100) ELSE ctor.fraction
       IN /\ self.fractions = <<Scalar(FSub(Num(1), F)), Scalar(F)>>
          /\ (Called /\ Len(projectables) # 2) => outcome = "ValueError"
          /\ (Called /\ Len(projectables) = 2)
               => /\ Returned
                  /\ \A p \in Pixels :
                       /\ new_channel[p] = Mix(F, In(1, p), In(2, p))
                       /\ (ctor.fraction = Missing /\ In(1, p) = Num(100)
                             /\ In(2, p) = Num(200))
                            => new_channel[p] = Num(107)

C6_Witness ==
  /\ self.cls = "HybridGreen" /\ ctor.fraction = Missing
  /\ Called /\ Returned
  /\ In(1, 2) = Num(100) /\ In(2, 2) = Num(200)
  /\ new_channel[2] = Num(107)

\* the nir weight the last call left at pixel p
NirWeight(p) == At(self.fractions[2], p)

Between(v, a, b) == (Leq(a, v) /\ Leq(v, b)) \/ (Leq(b, v) /\ Leq(v, a))

\* C7: with ndvi_min < ndvi_max the nir weight f of every pixel with a defined
\* NDVI lies between limits[0] and limits[1]; it is limits[0] at or below
\* ndvi_min, limits[1] at or above ndvi_max and linear in between; it moves
\* with the NDVI in the direction from limits[0] to limits[1] (never up when
\* limits[1] < limits[0]); and an NDVI out of range is not an error.
C7_FractionRange ==
  (NdviCall /\ Ordered)
    => /\ Returned
       /\ \A p \in Pixels :
            NdviDefined(p)
              => /\ Between(NirWeight(p), self.limits[1], self.limits[2])
                 /\ Leq(RawNdvi(p), self.ndvi_min) => NirWeight(p) = self.limits[1]
                 /\ Leq(self.ndvi_max, RawNdvi(p)) => NirWeight(p) = self.limits[2]
                 /\ (FLt(self.ndvi_min, RawNdvi(p)) /\ FLt(RawNdvi(p), self.ndvi_max))
                      => NirWeight(p) = LinearFraction(RawNdvi(p))
       /\ \A p, q \in Pixels :
            (NdviDefined(p) /\ NdviDefined(q) /\ Leq(RawNdvi(p), RawNdvi(q)))
              => /\ FLt(self.limits[2], self.limits[1])
                      => Leq(NirWeight(q), NirWeight(p))
                 /\ FLt(self.limits[1], self.limits[2])
                      => Leq(NirWeight(p), NirWeight(q))

\* one pixel above ndvi_max, the other strictly inside, the weights differing
C7_Witness ==
  /\ NdviCall /\ Ordered /\ Returned
  /\ NdviDefined(1) /\ NdviDefined(2)
  /\ FGt(RawNdvi(1), self.ndvi_max)
  /\ FLt(self.ndvi_min, RawNdvi(2)) /\ FLt(RawNdvi(2), self.ndvi_max)
  /\ NirWeight(1) = self.limits[2]
  /\ NirWeight(1) # NirWeight(2)

\* a new NDVIHybridGreen with the same ndvi_min, ndvi_max and limits and no
\* fractions of its own
Fresh == NDVIHybridGreen_init(ctor.ndvi_min, ctor.ndvi_max, ctor.limits, <<>>)

\* C10: every call of an NDVIHybridGreen ends as the same call of a new
\* instance with the same ndvi_min, ndvi_max and limits does, whatever
\* fractions an earlier call or the constructor left; the calls of
\* SpectralBlender and HybridGreen leave fractions as constructed.
C10_CallsIndependent ==
  /\ (Called /\ Ndvi3)
       => LET fresh == NDVIHybridGreen_call(Fresh, projectables)
          IN /\ outcome = fresh.outcome
             /\ new_channel = fresh.value
             /\ Returned => self.fractions = fresh.self.fractions
  /\ Blender => (self.fractions = Construct(ctor).fractions /\ ~overwrote)

\* a second call that replaced the fractions the first one left
C10_Witness ==
  /\ Ndvi3 /\ ncalls >= 2 /\ Returned /\ overwrote
  /\ ctor.fractions # <<>>

(***************************************************************************)
(* The properties of the reader, checked under ReaderSpec.                 *)
(***************************************************************************)
\* the 2-D array holding one value everywhere
FullOf(value) == [a \in 1..atrack |-> [x \in 1..xtrack |-> value]]

\* C8: for the name str(k) of an integer k in 1..22 the channel lookup returns
\* the slice of the cube at index k - 1 (which the fixture fills with
\* 100 + (k - 1)), its values as stored, and no other channel's.
C8_ChannelLookup ==
  request.op = "_get_channel_data"
    => \E k \in 1..channel :
         /\ request.name = str(k)
         /\ reply.values =
              [a \in 1..atrack |-> [x \in 1..xtrack |->
                 nc.data_vars.antenna_temp.values[a][x][(k - 1) + 1]]]
         /\ reply.values = FullOf(100 + (k - 1))

C8_Witness ==
  /\ request.op = "_get_channel_data"
  /\ request.name = <<"2", "2">>
  /\ reply.values = FullOf(121)

\* the variable of the dataset a name stands for, if any
NamedVariable(name) == { v \in DOMAIN VariableNames : VariableNames[v] = name }

C9_NoneReached ==
  /\ request.op = "get_dataset"
  /\ request.name = str(channel + 1)
  /\ reply = None

====
